---- MODULE Spec2Model ----
(***************************************************************************)
(* MCPClient (src/client.py): the multi-turn tool-calling loop of          *)
(* process_query, with the model invoker _invoke_bedrock_claude and its    *)
(* bedrock_available latch.  Python strings are TLA+ strings, lists are    *)
(* sequences, a dict with string keys is a record (a missing key is a      *)
(* field that is not in DOMAIN), and the tool arguments, whose keys vary,  *)
(* are a sequence of <<key, value>> pairs in insertion order.              *)
(* Spec is the client object under any sequence of process_query calls;    *)
(* SpecMain is the program: main, connect_to_sse_server step by step,      *)
(* chat_loop around process_query, and cleanup.                            *)
(***************************************************************************)
EXTENDS Integers, Sequences, FiniteSets, TLC

VARIABLES
    session,            \* self.session is set (ClientSession) or None
    bedrock_available,  \* self.bedrock_available
    pc,                 \* where the current process_query call stands
    query,              \* the argument of the current process_query call
    messages,           \* the transcript
    available_tools,    \* the catalog built from list_tools
    bedrock_response,   \* the name bedrock_response: the latest reply bound to it
    loop_content,       \* the list the for statement of line 183 iterates over
    loop_idx,           \* position of that iteration
    final_text,
    tool_results,
    tool_name,
    tool_args,
    tool_id,
    result_content,
    result,             \* the string process_query returned
    raised,             \* the exception process_query let escape, or NoExc
    \* history of the current call (not read by the program)
    replies,            \* the replies the model endpoint returned, in order
    sent,               \* the (messages, tools) of every _invoke_bedrock_claude call
    calls,              \* the (name, args) of every session.call_tool call
    nListTools,         \* session.list_tools requests of this call
    nRequests,          \* bedrock_client.invoke_model requests of this call
    origin,             \* for every entry of final_text, the reply it came from (0: annotation)
    latchedAtStart,     \* bedrock_available was False when the call started
    toolExc,            \* the exception call_tool raised in this call, or NoExc
    failedAt,           \* Len(sent), Len(calls) when call_tool raised
    inflight,           \* the remote calls begun and not yet completed, in order
    \* main and chat_loop
    mpc,                \* where main stands
    streams_context,    \* self._streams_context: unset, created, entered, exited, exit_failed
    session_context,    \* self._session_context: likewise
    line,               \* << >>, or <<l>>: the line l input() returned to chat_loop, not yet dealt with
    leftBy              \* why main went to its finally clause

vars == <<session, bedrock_available, pc, query, messages, available_tools,
          bedrock_response, loop_content, loop_idx, final_text, tool_results,
          tool_name, tool_args, tool_id, result_content, result, raised,
          replies, sent, calls, nListTools, nRequests, origin, latchedAtStart,
          toolExc, failedAt, inflight,
          mpc, streams_context, session_context, line, leftBy>>

-----------------------------------------------------------------------------
(* Bounds of the environment *)

\* content blocks the model emits within one query, over all its replies
MaxBlocks == 4

NoExc == [cls |-> "None", msg |-> ""]

Queries == {"What is the time zone for location QIM4?"}

Texts == {"QIM4 is in the America/Chicago time zone.", "Let me check."}

TextBlocks == {[type |-> "text", text |-> t] : t \in Texts}

\* tool_use blocks: with the model's id, and without id (and without input)
ToolUseBlocks ==
    { [type |-> "tool_use", id |-> "t1", name |-> "get_location_by_id",
       input |-> << <<"location_id", "QIM4">> >>],
      [type |-> "tool_use", name |-> "search_locations_by_name",
       input |-> << <<"name", "Austin">>, <<"state", "TX">> >>],
      [type |-> "tool_use", name |-> "get_location_by_id"] }

Blocks == TextBlocks \cup ToolUseBlocks

\* the reply bodies of at most n blocks
Replies(n) == UNION { {[content |-> c] : c \in [1..k -> Blocks]} : k \in 0..n }

\* what list_tools answers: the server's tools
ServerTools ==
    { << >>,
      << [name |-> "get_location_by_id", description |-> "Get location by id",
          inputSchema |-> "schema"] >> }

\* the .content of a call_tool result: the texts of its TextContent items
ToolContents == { <<"Time Zone: America/Chicago">> }

\* exceptions of the session (list_tools, call_tool) and of the transport
SessionErrors == { [cls |-> "McpError", msg |-> "Location not found"] }
TransportErrors == { [cls |-> "EndpointConnectionError", msg |-> "Could not connect to the endpoint"] }

AuthCodes == {"UnrecognizedClientException", "InvalidSignatureException",
              "ExpiredTokenException", "AccessDeniedException"}

\* the Error dict of a ClientError response
ClientErrors ==
    {[Code |-> c, Message |-> "The security token is invalid"] : c \in AuthCodes}
    \cup {[Code |-> "ThrottlingException", Message |-> "Too many requests"],
          [Message |-> "Service failure"]}

-----------------------------------------------------------------------------
(* Strings *)

Contains(s, m) ==
    \E i \in 1..(Len(s) - Len(m) + 1) : SubSeq(s, i, i + Len(m) - 1) = m

HasPrefix(s, p) == Len(s) >= Len(p) /\ SubSeq(s, 1, Len(p)) = p

RECURSIVE Join(_, _)
Join(parts, sep) ==
    IF Len(parts) = 0 THEN ""
    ELSE IF Len(parts) = 1 THEN parts[1]
    ELSE parts[1] \o sep \o Join(Tail(parts), sep)

Digits == <<"0", "1", "2", "3", "4", "5", "6", "7", "8", "9">>

RECURSIVE Str(_)
Str(n) == IF n < 10 THEN Digits[n + 1] ELSE Str(n \div 10) \o Digits[(n % 10) + 1]

\* json.dumps with separators=(",", ":")
json_dumps_compact(args) ==
    "{" \o Join([i \in 1..Len(args) |-> "\"" \o args[i][1] \o "\":\"" \o args[i][2] \o "\""], ",")
        \o "}"

\* json.dumps(tool_args, ensure_ascii=False) of a dict of strings
JsonPair(p) == "\"" \o p[1] \o "\": \"" \o p[2] \o "\""
json_dumps(args) == "{" \o Join([i \in 1..Len(args) |-> JsonPair(args[i])], ", ") \o "}"

\* str(result.content): the repr of a list of TextContent items
ReprItem(t) == "TextContent(type='text', text='" \o t \o "')"
str_content(content) ==
    "[" \o Join([i \in 1..Len(content) |-> ReprItem(content[i])], ", ") \o "]"

\* traceback.format_exc(): the header and the exception line (frames left out)
format_exc(e) == "Traceback (most recent call last):\n" \o e.cls \o ": " \o e.msg \o "\n"

NotConnected == "Not connected to server. Please connect first."
ErrorPrefix == "Error processing query: "
LatchedMsg == "AWS Bedrock authentication failed. Please check your credentials."

IsErrorString(s) == s = NotConnected \/ HasPrefix(s, ErrorPrefix)

\* dict.get(key, default)
Get(d, key, default) == IF key \in DOMAIN d THEN d[key] ELSE default

-----------------------------------------------------------------------------
(* State *)

locals == <<messages, available_tools, bedrock_response, loop_content, loop_idx,
            final_text, tool_results, tool_name, tool_args, tool_id, result_content>>
history == <<replies, sent, calls, nListTools, nRequests, origin, latchedAtStart,
             toolExc, failedAt>>
mainvars == <<mpc, streams_context, session_context, line, leftBy>>

Init ==
    /\ session = FALSE
    /\ bedrock_available = TRUE
    /\ pc = "idle"
    /\ query = ""
    /\ messages = << >>
    /\ available_tools = << >>
    /\ bedrock_response = [content |-> << >>]
    /\ loop_content = << >>
    /\ loop_idx = 1
    /\ final_text = << >>
    /\ tool_results = << >>
    /\ tool_name = ""
    /\ tool_args = << >>
    /\ tool_id = ""
    /\ result_content = ""
    /\ result = ""
    /\ raised = NoExc
    /\ replies = << >>
    /\ sent = << >>
    /\ calls = << >>
    /\ nListTools = 0
    /\ nRequests = 0
    /\ origin = << >>
    /\ latchedAtStart = FALSE
    /\ toolExc = NoExc
    /\ failedAt = [invocations |-> 0, calls |-> 0]
    /\ inflight = << >>
    /\ mpc = "start"
    /\ streams_context = "unset"
    /\ session_context = "unset"
    /\ line = << >>
    /\ leftBy = ""

\* a remote call is begun: the coroutine waits for it
Begun(calls_in_flight, call) == Append(calls_in_flight, call)

\* the call is not awaited: it stays in flight
Completed_NotAwaited(calls_in_flight, call) == calls_in_flight

\* the awaited call has returned or raised
Completed(calls_in_flight, call) ==
    IF calls_in_flight # << >> /\ calls_in_flight[Len(calls_in_flight)] = call
    THEN SubSeq(calls_in_flight, 1, Len(calls_in_flight) - 1)
    ELSE calls_in_flight

\* blocks received so far in this call
RECURSIVE BlocksIn(_)
BlocksIn(rs) == IF rs = << >> THEN 0 ELSE Len(rs[1].content) + BlocksIn(Tail(rs))

\* the text blocks of a reply, in order (lines 233-235)
RECURSIVE TextsOf(_)
TextsOf(content) ==
    IF content = << >> THEN << >>
    ELSE IF content[1].type = "text"
         THEN <<Get(content[1], "text", "")>> \o TextsOf(Tail(content))
         ELSE TextsOf(Tail(content))

HasToolUse(r) == \E i \in 1..Len(r.content) : r.content[i].type = "tool_use"

-----------------------------------------------------------------------------
(* connect_to_sse_server, the path on which every step succeeds *)

Connect ==
    /\ pc \in {"idle", "returned"}
    /\ session = FALSE
    /\ session' = TRUE
    /\ UNCHANGED <<mainvars, inflight, bedrock_available, pc, query, result, raised, locals, history>>

-----------------------------------------------------------------------------
(* process_query *)

\* an except clause for ClientError alone
Catches_ClientErrorOnly(e) == e.cls = "ClientError"

\* the classes "except Exception" catches
Catches(e) == e.cls \in {"Exception", "McpError", "EndpointConnectionError"}

\* lines 238-241: the except clause of process_query
HandleException(e) ==
    IF Catches(e)
    THEN /\ result' = ErrorPrefix \o e.msg \o "\n\n" \o format_exc(e)
         /\ pc' = "returned"
         /\ raised' = NoExc
    ELSE /\ raised' = e
         /\ pc' = "raised"
         /\ UNCHANGED result

\* the session is not checked
ProcessQuery_NoSessionCheck(q) ==
    /\ pc \in {"idle", "returned", "raised"}
    /\ inflight' = (IF FALSE THEN inflight ELSE Begun(inflight, "list_tools"))
    /\ query' = q
    /\ raised' = NoExc
    /\ available_tools' = << >>
    /\ bedrock_response' = [content |-> << >>]
    /\ loop_content' = << >>
    /\ loop_idx' = 1
    /\ final_text' = << >>
    /\ tool_results' = << >>
    /\ tool_name' = ""
    /\ tool_args' = << >>
    /\ tool_id' = ""
    /\ result_content' = ""
    /\ replies' = << >>
    /\ sent' = << >>
    /\ calls' = << >>
    /\ nListTools' = 0
    /\ nRequests' = 0
    /\ origin' = << >>
    /\ latchedAtStart' = ~bedrock_available
    /\ toolExc' = NoExc
    /\ failedAt' = [invocations |-> 0, calls |-> 0]
    /\ IF FALSE
       THEN /\ result' = NotConnected
            /\ pc' = "returned"
            /\ messages' = << >>
       ELSE /\ messages' = << [role |-> "user", content |-> q] >>
            /\ pc' = "list_tools"
            /\ result' = ""
    /\ UNCHANGED <<mainvars, session, bedrock_available>>

\* lines 151-161: entry, the session check and the seeding of the transcript
ProcessQuery(q) ==
    /\ pc \in {"idle", "returned", "raised"}
    /\ inflight' = (IF ~session THEN inflight ELSE Begun(inflight, "list_tools"))
    /\ query' = q
    /\ raised' = NoExc
    /\ available_tools' = << >>
    /\ bedrock_response' = [content |-> << >>]
    /\ loop_content' = << >>
    /\ loop_idx' = 1
    /\ final_text' = << >>
    /\ tool_results' = << >>
    /\ tool_name' = ""
    /\ tool_args' = << >>
    /\ tool_id' = ""
    /\ result_content' = ""
    /\ replies' = << >>
    /\ sent' = << >>
    /\ calls' = << >>
    /\ nListTools' = 0
    /\ nRequests' = 0
    /\ origin' = << >>
    /\ latchedAtStart' = ~bedrock_available
    /\ toolExc' = NoExc
    /\ failedAt' = [invocations |-> 0, calls |-> 0]
    /\ IF ~session
       THEN /\ result' = NotConnected
            /\ pc' = "returned"
            /\ messages' = << >>
       ELSE /\ messages' = << [role |-> "user", content |-> q] >>
            /\ pc' = "list_tools"
            /\ result' = ""
    /\ UNCHANGED <<mainvars, session, bedrock_available>>

\* lines 165-170: list_tools answers, and the catalog is built from it
ToolDescriptor(tool) ==
    [name |-> tool.name, description |-> tool.description, input_schema |-> tool.inputSchema]

ListToolsReturn(tools) ==
    /\ pc = "list_tools"
    /\ inflight' = Begun(Completed(inflight, "list_tools"), "invoke_model")
    /\ nListTools' = nListTools + 1
    /\ available_tools' = [i \in 1..Len(tools) |-> ToolDescriptor(tools[i])]
    /\ pc' = "invoke_first"
    /\ UNCHANGED <<mainvars, session, bedrock_available, query, result, raised, messages,
                   bedrock_response, loop_content, loop_idx, final_text, tool_results,
                   tool_name, tool_args, tool_id, result_content,
                   replies, sent, calls, nRequests, origin, latchedAtStart, toolExc, failedAt>>

\* line 165: list_tools raises
ListToolsRaise(e) ==
    /\ pc = "list_tools"
    /\ inflight' = Completed(inflight, "list_tools")
    /\ nListTools' = nListTools + 1
    /\ HandleException(e)
    /\ UNCHANGED <<mainvars, session, bedrock_available, query, locals,
                   replies, sent, calls, nRequests, origin, latchedAtStart, toolExc, failedAt>>

\* the latch is never consulted
FailsFast_Never == FALSE

\* line 104: the latch is checked before anything is sent
FailsFast == ~bedrock_available

\* every ClientError sets the latch
Latches_AnyCode(code) == TRUE

\* lines 129-130: the codes that set the latch
Latches(code) == code \in AuthCodes

\* the follow-up call is made without the catalog
Invocation_FollowupWithoutTools ==
    [messages |-> messages,
     tools |-> IF pc = "invoke_followup" THEN << >> ELSE available_tools]

\* the arguments of one _invoke_bedrock_claude call
Invocation == [messages |-> messages, tools |-> available_tools]

\* lines 174-183: the first reply is bound and the for statement starts on its content
AfterFirstReply(r) ==
    /\ bedrock_response' = r
    /\ tool_results' = << >>
    /\ final_text' = << >>
    /\ origin' = << >>
    /\ loop_content' = Get(r, "content", << >>)
    /\ loop_idx' = 1
    /\ pc' = "scan"

\* the follow-up text is put in front of the accumulated text
AfterFollowupReply_Prepend(r) ==
    /\ bedrock_response' = r
    /\ final_text' = TextsOf(Get(r, "content", << >>)) \o final_text
    /\ origin' = [i \in 1..Len(TextsOf(Get(r, "content", << >>))) |-> Len(replies) + 1] \o origin
    /\ loop_idx' = loop_idx + 1
    /\ pc' = "scan"
    /\ UNCHANGED <<tool_results, loop_content>>

\* the iteration skips the block that follows a tool_use block
AfterFollowupReply_SkipBlock(r) ==
    /\ bedrock_response' = r
    /\ final_text' = final_text \o TextsOf(Get(r, "content", << >>))
    /\ origin' = origin \o [i \in 1..Len(TextsOf(Get(r, "content", << >>))) |-> Len(replies) + 1]
    /\ loop_idx' = loop_idx + 2
    /\ pc' = "scan"
    /\ UNCHANGED <<tool_results, loop_content>>

\* the iteration starts over on the follow-up reply
AfterFollowupReply_Rescan(r) ==
    /\ bedrock_response' = r
    /\ loop_content' = Get(r, "content", << >>)
    /\ loop_idx' = 1
    /\ pc' = "scan"
    /\ UNCHANGED <<tool_results, final_text, origin>>

\* lines 230-235: the follow-up reply is bound, its text blocks are appended,
\* and the for statement of line 183 goes on with its next block
AfterFollowupReply(r) ==
    /\ bedrock_response' = r
    /\ final_text' = final_text \o TextsOf(Get(r, "content", << >>))
    /\ origin' = origin \o [i \in 1..Len(TextsOf(Get(r, "content", << >>))) |-> Len(replies) + 1]
    /\ loop_idx' = loop_idx + 1
    /\ pc' = "scan"
    /\ UNCHANGED <<tool_results, loop_content>>

\* lines 102-123: _invoke_bedrock_claude sends the request and the endpoint answers r
InvokeReply(r) ==
    /\ pc \in {"invoke_first", "invoke_followup"}
    /\ inflight' = Completed(inflight, "invoke_model")
    /\ ~FailsFast
    /\ sent' = Append(sent, Invocation)
    /\ nRequests' = nRequests + 1
    /\ replies' = Append(replies, r)
    /\ IF pc = "invoke_first" THEN AfterFirstReply(r) ELSE AfterFollowupReply(r)
    /\ UNCHANGED <<mainvars, session, bedrock_available, query, result, raised, messages,
                   available_tools, tool_name, tool_args, tool_id, result_content,
                   calls, nListTools, latchedAtStart, toolExc, failedAt>>

\* lines 104-105: the latch is set, the call raises before any request
InvokeLatched ==
    /\ pc \in {"invoke_first", "invoke_followup"}
    /\ inflight' = Completed(inflight, "invoke_model")
    /\ FailsFast
    /\ sent' = Append(sent, Invocation)
    /\ HandleException([cls |-> "Exception", msg |-> LatchedMsg])
    /\ UNCHANGED <<mainvars, session, bedrock_available, query, locals,
                   replies, calls, nListTools, nRequests, origin, latchedAtStart,
                   toolExc, failedAt>>

\* lines 125-135: the endpoint rejects the request with a ClientError
InvokeClientError(err) ==
    /\ pc \in {"invoke_first", "invoke_followup"}
    /\ inflight' = Completed(inflight, "invoke_model")
    /\ ~FailsFast
    /\ sent' = Append(sent, Invocation)
    /\ nRequests' = nRequests + 1
    /\ bedrock_available' = IF Latches(Get(err, "Code", "Unknown")) THEN FALSE
                            ELSE bedrock_available
    /\ HandleException([cls |-> "Exception",
                        msg |-> "AWS Bedrock error (" \o Get(err, "Code", "Unknown")
                                \o "): " \o err.Message])
    /\ UNCHANGED <<mainvars, session, query, locals,
                   replies, calls, nListTools, origin, latchedAtStart, toolExc, failedAt>>

\* lines 117-120: invoke_model raises something that is no ClientError
InvokeOtherError(e) ==
    /\ pc \in {"invoke_first", "invoke_followup"}
    /\ inflight' = Completed(inflight, "invoke_model")
    /\ ~FailsFast
    /\ sent' = Append(sent, Invocation)
    /\ nRequests' = nRequests + 1
    /\ HandleException(e)
    /\ UNCHANGED <<mainvars, session, bedrock_available, query, locals,
                   replies, calls, nListTools, origin, latchedAtStart, toolExc, failedAt>>

\* the text block is inserted at the front of final_text
ScanText_Prepend ==
    /\ pc = "scan"
    /\ inflight' = inflight
    /\ loop_idx <= Len(loop_content)
    /\ loop_content[loop_idx].type = "text"
    /\ final_text' = <<Get(loop_content[loop_idx], "text", "")>> \o final_text
    /\ origin' = <<1>> \o origin
    /\ loop_idx' = loop_idx + 1
    /\ UNCHANGED <<mainvars, session, bedrock_available, pc, query, result, raised, messages,
                   available_tools, bedrock_response, loop_content, tool_results,
                   tool_name, tool_args, tool_id, result_content,
                   replies, sent, calls, nListTools, nRequests, latchedAtStart,
                   toolExc, failedAt>>

\* lines 183-186: the next block of the iterated list is a text block
ScanText ==
    /\ pc = "scan"
    /\ inflight' = inflight
    /\ loop_idx <= Len(loop_content)
    /\ loop_content[loop_idx].type = "text"
    /\ final_text' = Append(final_text, Get(loop_content[loop_idx], "text", ""))
    /\ origin' = Append(origin, 1)
    /\ loop_idx' = loop_idx + 1
    /\ UNCHANGED <<mainvars, session, bedrock_available, pc, query, result, raised, messages,
                   available_tools, bedrock_response, loop_content, tool_results,
                   tool_name, tool_args, tool_id, result_content,
                   replies, sent, calls, nListTools, nRequests, latchedAtStart,
                   toolExc, failedAt>>

\* line 190: the model's id, or tool_<number of tool results>
ToolId(content) == Get(content, "id", "tool_" \o Str(Len(tool_results)))

\* lines 187-194: the next block is a tool_use block; call_tool is awaited
ScanToolUse ==
    /\ pc = "scan"
    /\ inflight' = Begun(inflight, "call_tool")
    /\ loop_idx <= Len(loop_content)
    /\ loop_content[loop_idx].type = "tool_use"
    /\ tool_name' = loop_content[loop_idx].name
    /\ tool_args' = Get(loop_content[loop_idx], "input", << >>)
    /\ tool_id' = ToolId(loop_content[loop_idx])
    /\ pc' = "call_tool"
    /\ UNCHANGED <<mainvars, session, bedrock_available, query, result, raised, messages,
                   available_tools, bedrock_response, loop_content, loop_idx,
                   final_text, tool_results, result_content, history>>

\* line 201
Annotation(name, args) ==
    "[Calling tool " \o name \o " with args " \o json_dumps(args) \o "]"

\* the result is tagged with the tool's name instead of the request's id
ToolTurns_TaggedByName(name, args, id, content) ==
    << [role |-> "assistant",
        content |-> << [type |-> "tool_use", name |-> name, input |-> args, id |-> id] >>],
       [role |-> "user",
        content |-> << [type |-> "tool_result", content |-> content, tool_use_id |-> name] >>] >>

\* only the user turn with the result is appended
ToolTurns_ResultOnly(name, args, id, content) ==
    << [role |-> "user",
        content |-> << [type |-> "tool_result", content |-> content, tool_use_id |-> id] >>] >>

\* lines 204-226: the assistant turn with the request, the user turn with the result
ToolTurns(name, args, id, content) ==
    << [role |-> "assistant",
        content |-> << [type |-> "tool_use", name |-> name, input |-> args, id |-> id] >>],
       [role |-> "user",
        content |-> << [type |-> "tool_result", content |-> content, tool_use_id |-> id] >>] >>

\* lines 194-226: call_tool returns
CallToolReturn(content) ==
    /\ pc = "call_tool"
    /\ inflight' = Begun(Completed(inflight, "call_tool"), "invoke_model")
    /\ calls' = Append(calls, [name |-> tool_name, args |-> tool_args])
    /\ result_content' = str_content(content)
    /\ final_text' = Append(final_text, Annotation(tool_name, tool_args))
    /\ origin' = Append(origin, 0)
    /\ messages' = messages \o ToolTurns(tool_name, tool_args, tool_id, str_content(content))
    /\ pc' = "invoke_followup"
    /\ UNCHANGED <<mainvars, session, bedrock_available, query, result, raised,
                   available_tools, bedrock_response, loop_content, loop_idx,
                   tool_results, tool_name, tool_args, tool_id,
                   replies, sent, nListTools, nRequests, latchedAtStart, toolExc, failedAt>>

\* the failure of call_tool is swallowed: its message becomes the tool result
CallToolRaise_Swallow(e) ==
    /\ pc = "call_tool"
    /\ inflight' = Begun(Completed(inflight, "call_tool"), "invoke_model")
    /\ calls' = Append(calls, [name |-> tool_name, args |-> tool_args])
    /\ toolExc' = e
    /\ failedAt' = [invocations |-> Len(sent), calls |-> Len(calls) + 1]
    /\ result_content' = e.msg
    /\ final_text' = Append(final_text, Annotation(tool_name, tool_args))
    /\ origin' = Append(origin, 0)
    /\ messages' = messages \o ToolTurns(tool_name, tool_args, tool_id, e.msg)
    /\ pc' = "invoke_followup"
    /\ UNCHANGED <<mainvars, session, bedrock_available, query, result, raised,
                   available_tools, bedrock_response, loop_content, loop_idx,
                   tool_results, tool_name, tool_args, tool_id,
                   replies, sent, nListTools, nRequests, latchedAtStart>>

\* line 194: call_tool raises
CallToolRaise(e) ==
    /\ pc = "call_tool"
    /\ inflight' = Completed(inflight, "call_tool")
    /\ calls' = Append(calls, [name |-> tool_name, args |-> tool_args])
    /\ toolExc' = e
    /\ failedAt' = [invocations |-> Len(sent), calls |-> Len(calls) + 1]
    /\ HandleException(e)
    /\ UNCHANGED <<mainvars, session, bedrock_available, query, locals,
                   replies, sent, nListTools, nRequests, origin, latchedAtStart>>

\* line 237: the iterated list is exhausted
Return ==
    /\ pc = "scan"
    /\ loop_idx > Len(loop_content)
    /\ inflight' = inflight
    /\ result' = Join(final_text, "\n")
    /\ pc' = "returned"
    /\ UNCHANGED <<mainvars, session, bedrock_available, query, raised, locals, history>>

-----------------------------------------------------------------------------

Next ==
    \/ Connect
    \/ \E q \in Queries : ProcessQuery(q)
    \/ \E tools \in ServerTools : ListToolsReturn(tools)
    \/ \E e \in SessionErrors : ListToolsRaise(e)
    \/ \E r \in Replies(MaxBlocks - BlocksIn(replies)) : InvokeReply(r)
    \/ InvokeLatched
    \/ \E err \in ClientErrors : InvokeClientError(err)
    \/ \E e \in TransportErrors : InvokeOtherError(e)
    \/ ScanText
    \/ ScanToolUse
    \/ \E content \in ToolContents : CallToolReturn(content)
    \/ \E e \in SessionErrors : CallToolRaise(e)
    \/ Return

\* the steps of a process_query call that is under way
QueryStep ==
    \/ \E tools \in ServerTools : ListToolsReturn(tools)
    \/ \E e \in SessionErrors : ListToolsRaise(e)
    \/ \E r \in Replies(MaxBlocks - BlocksIn(replies)) : InvokeReply(r)
    \/ InvokeLatched
    \/ \E err \in ClientErrors : InvokeClientError(err)
    \/ \E e \in TransportErrors : InvokeOtherError(e)
    \/ ScanText
    \/ ScanToolUse
    \/ \E content \in ToolContents : CallToolReturn(content)
    \/ \E e \in SessionErrors : CallToolRaise(e)
    \/ Return

Spec == Init /\ [][Next]_vars

\* every remote call returns or raises, and the interpreter keeps running
FairSpec == Spec /\ WF_vars(QueryStep)

-----------------------------------------------------------------------------
(* Properties of process_query *)

Returned == pc = "returned"
ReturnedAnswer == pc = "returned" /\ ~IsErrorString(result)

IsToolUse(b) == b.type = "tool_use"
IsText(b) == b.type = "text"

\* a reply that consists of exactly one tool_use block
LoneToolUse(r) == Len(r.content) = 1 /\ IsToolUse(r.content[1])

\* the tool_use blocks of a reply, counted
RECURSIVE ToolUseCount(_)
ToolUseCount(content) ==
    IF content = << >> THEN 0
    ELSE (IF IsToolUse(content[1]) THEN 1 ELSE 0) + ToolUseCount(Tail(content))

\* C1: a chain of N tool requests, each alone in its reply, is followed to its
\* end: process_query returns an answer only after a reply without a tool_use
\* block, and then N+1 model invocations and N call_tool calls were made.
C1_ChainFollowedToEnd ==
    (/\ ReturnedAnswer
     /\ Len(replies) >= 1
     /\ \A k \in 1..Len(replies) : HasToolUse(replies[k]) => LoneToolUse(replies[k]))
    => /\ ~HasToolUse(replies[Len(replies)])
       /\ \A k \in 1..(Len(replies) - 1) : LoneToolUse(replies[k])
       /\ Len(sent) = Len(replies)
       /\ Len(calls) = Len(replies) - 1

\* C2: when the first reply holds text blocks only, process_query returns their
\* texts in reply order after one model invocation and no call_tool call.
C2_TextOnlyReply ==
    (/\ Returned
     /\ Len(replies) >= 1
     /\ \A i \in 1..Len(replies[1].content) : IsText(replies[1].content[i]))
    => /\ result = Join([i \in 1..Len(replies[1].content) |-> replies[1].content[i].text], "\n")
       /\ Len(sent) = 1
       /\ nRequests = 1
       /\ Len(replies) = 1
       /\ Len(calls) = 0

C2_Witness ==
    /\ Returned
    /\ Len(replies) = 1
    /\ Len(replies[1].content) = 2
    /\ IsText(replies[1].content[1])
    /\ IsText(replies[1].content[2])
    /\ replies[1].content[1].text # replies[1].content[2].text
    /\ result = replies[1].content[1].text \o "\n" \o replies[1].content[2].text

\* the position of the first tool_use block of a reply's content (0: none)
RECURSIVE FirstToolUse(_, _)
FirstToolUse(content, i) ==
    IF i > Len(content) THEN 0
    ELSE IF IsToolUse(content[i]) THEN i ELSE FirstToolUse(content, i + 1)

\* C3: when the first reply holds exactly one tool_use block with text blocks
\* before and/or after it and the follow-up reply holds text only, process_query
\* makes exactly two model invocations and one call_tool call, and the returned
\* text has the pre-tool text before the text of the follow-up reply.
C3_OneToolWithText ==
    (/\ Returned
     /\ Len(replies) >= 2
     /\ ToolUseCount(replies[1].content) = 1
     /\ Len(replies[1].content) >= 2
     /\ ~HasToolUse(replies[2]))
    => LET first == replies[1].content
           k == FirstToolUse(first, 1)
           pre == [i \in 1..(k - 1) |-> first[i].text]
           follow == [i \in 1..Len(replies[2].content) |-> replies[2].content[i].text]
       IN  /\ Len(sent) = 2
           /\ nRequests = 2
           /\ Len(replies) = 2
           /\ Len(calls) = 1
           /\ result = Join(final_text, "\n")
           /\ Len(final_text) >= k + Len(follow)
           /\ SubSeq(final_text, 1, k - 1) = pre
           /\ SubSeq(final_text, k + 1, k + Len(follow)) = follow

C3_Witness ==
    /\ Returned
    /\ Len(replies) = 2
    /\ Len(replies[1].content) = 3
    /\ IsText(replies[1].content[1])
    /\ IsToolUse(replies[1].content[2])
    /\ IsText(replies[1].content[3])
    /\ Len(replies[2].content) = 1
    /\ IsText(replies[2].content[1])
    /\ replies[1].content[1].text # replies[2].content[1].text
    /\ Len(final_text) = 4
    /\ final_text[1] = replies[1].content[1].text
    /\ final_text[3] = replies[2].content[1].text

\* C4: when call_tool raises, process_query returns an error string that holds
\* the exception's message, and no model invocation and no call_tool call is
\* made for that query after the failing call.
C4_ToolFailureEndsQuery ==
    toolExc # NoExc
    => /\ Returned
       /\ raised = NoExc
       /\ IsErrorString(result)
       /\ Contains(result, toolExc.msg)
       /\ Len(sent) = failedAt.invocations
       /\ nRequests = failedAt.invocations
       /\ Len(calls) = failedAt.calls

C4_Witness ==
    /\ Returned
    /\ toolExc \in SessionErrors
    /\ Len(calls) = 2
    /\ Len(sent) = 2
    /\ Contains(result, "Location not found")

\* C5, as claimed: once bedrock_available is False, a process_query call returns
\* an error string and issues no model endpoint request, no list_tools request
\* and no call_tool request.
C5_NoNetworkCallWhenLatched ==
    (Returned /\ latchedAtStart)
    => /\ IsErrorString(result)
       /\ nRequests = 0
       /\ nListTools = 0
       /\ Len(calls) = 0

\* C5, amended: once bedrock_available is False, a process_query call returns an
\* error string and issues no model endpoint request and no call_tool request;
\* the list_tools request of the query is still issued, exactly once.
C5_NoModelRequestWhenLatched ==
    /\ latchedAtStart => (nRequests = 0 /\ Len(calls) = 0 /\ Len(replies) = 0)
    /\ (Returned /\ latchedAtStart)
       => /\ IsErrorString(result)
          /\ nListTools = 1

C5_Witness ==
    /\ Returned
    /\ latchedAtStart
    /\ nListTools = 1
    /\ Len(sent) = 1
    /\ Contains(result, LatchedMsg)

\* C6: process_query lets no failure escape: without a session, when list_tools
\* fails, when a model invocation (first or follow-up) fails or is rejected, and
\* when call_tool raises, it returns a string that describes the error.
NoSessionAtCall == Returned /\ nListTools = 0
ListToolsFailed == Returned /\ nListTools = 1 /\ Len(sent) = 0
InvocationFailed == Returned /\ Len(sent) > Len(replies)
CallToolFailed == Returned /\ toolExc # NoExc

C6_NoFailureEscapes ==
    /\ pc # "raised"
    /\ raised = NoExc
    /\ NoSessionAtCall => result = NotConnected
    /\ (ListToolsFailed \/ CallToolFailed)
       => \E e \in SessionErrors : HasPrefix(result, ErrorPrefix \o e.msg \o "\n")
    /\ InvocationFailed
       => \/ \E e \in TransportErrors : HasPrefix(result, ErrorPrefix \o e.msg \o "\n")
          \/ HasPrefix(result, ErrorPrefix \o LatchedMsg \o "\n")
          \/ \E err \in ClientErrors :
                HasPrefix(result, ErrorPrefix \o "AWS Bedrock error ("
                                  \o Get(err, "Code", "Unknown") \o "): " \o err.Message \o "\n")

C6_Witness ==
    /\ Returned
    /\ Len(sent) = 2
    /\ Len(replies) = 1
    /\ Len(calls) = 1
    /\ toolExc = NoExc
    /\ \E e \in TransportErrors : Contains(result, e.msg)

\* the text blocks of all replies, in emission order
RECURSIVE AllTexts(_)
AllTexts(rs) == IF rs = << >> THEN << >> ELSE TextsOf(rs[1].content) \o AllTexts(Tail(rs))

\* the entries of final_text that came from a reply (the annotations left out)
RECURSIVE ModelTexts(_, _)
ModelTexts(texts, from) ==
    IF texts = << >> THEN << >>
    ELSE (IF from[1] = 0 THEN << >> ELSE <<texts[1]>>) \o ModelTexts(Tail(texts), Tail(from))

\* C7: the output lists the text segments of all replies in emission order:
\* every text block of reply i comes before every text block of reply i+1, also
\* when reply i has text blocks after a tool_use block.
C7_EmissionOrder ==
    ReturnedAnswer
    => /\ result = Join(final_text, "\n")
       /\ ModelTexts(final_text, origin) = AllTexts(replies)
       /\ \A i, j \in 1..Len(final_text) :
            (i < j /\ origin[i] # 0 /\ origin[j] # 0) => origin[i] <= origin[j]

\* C8: when the first reply is a single tool_use block (name T, input A) and the
\* follow-up reply a single text block X, the output is the annotation line
\* "[Calling tool T with args <JSON of A>]", a newline, then X, and nothing else.
C8_AnnotationThenText ==
    (/\ Returned
     /\ Len(replies) = 2
     /\ LoneToolUse(replies[1])
     /\ Len(replies[2].content) = 1
     /\ IsText(replies[2].content[1]))
    => LET T == replies[1].content[1].name
           A == Get(replies[1].content[1], "input", << >>)
           X == replies[2].content[1].text
       IN  /\ result = "[Calling tool " \o T \o " with args " \o json_dumps(A) \o "]" \o "\n" \o X
           /\ (T = "get_location_by_id" /\ A = << <<"location_id", "QIM4">> >>
               /\ X = "QIM4 is in the America/Chicago time zone.")
              => result = "[Calling tool get_location_by_id with args {\"location_id\": \"QIM4\"}]\nQIM4 is in the America/Chicago time zone."
           /\ (T = "search_locations_by_name" /\ X = "Let me check.")
              => result = "[Calling tool search_locations_by_name with args {\"name\": \"Austin\", \"state\": \"TX\"}]\nLet me check."
           /\ "input" \notin DOMAIN replies[1].content[1]
              => result = "[Calling tool " \o T \o " with args {}]\n" \o X

C8_Witness ==
    /\ Returned
    /\ Len(replies) = 2
    /\ replies[1].content = << [type |-> "tool_use", id |-> "t1", name |-> "get_location_by_id",
                                input |-> << <<"location_id", "QIM4">> >>] >>
    /\ replies[2].content = << [type |-> "text", text |-> "QIM4 is in the America/Chicago time zone."] >>
    /\ calls = << [name |-> "get_location_by_id", args |-> << <<"location_id", "QIM4">> >>] >>
    /\ result = "[Calling tool get_location_by_id with args {\"location_id\": \"QIM4\"}]\nQIM4 is in the America/Chicago time zone."

\* the tool_use blocks of all replies, counted
RECURSIVE AllToolUses(_)
AllToolUses(rs) == IF rs = << >> THEN 0 ELSE ToolUseCount(rs[1].content) + AllToolUses(Tail(rs))

\* C9: when process_query returns a non-error answer, the latest reply it got
\* holds no tool_use block, and every tool_use block of every reply was executed.
C9_DoneOnlyWithoutToolRequest ==
    (ReturnedAnswer /\ Len(replies) >= 1)
    => /\ ~HasToolUse(replies[Len(replies)])
       /\ Len(calls) = AllToolUses(replies)

\* C10: in every transcript passed to the model invoker, each tool_result block
\* sits in a user turn whose immediately preceding turn is an assistant turn
\* with a tool_use block of the same identifier, for requests with and without
\* a model-supplied id.
ResultsAnswerPriorRequest(m) ==
    \A i \in 2..Len(m) :
        \A j \in 1..Len(m[i].content) :
            m[i].content[j].type = "tool_result"
            => /\ m[i].role = "user"
               /\ m[i - 1].role = "assistant"
               /\ \E b \in 1..Len(m[i - 1].content) :
                     /\ m[i - 1].content[b].type = "tool_use"
                     /\ m[i - 1].content[b].id = m[i].content[j].tool_use_id

C10_ToolResultReferencesRequest ==
    /\ \A k \in 1..Len(sent) : ResultsAnswerPriorRequest(sent[k].messages)
    /\ ResultsAnswerPriorRequest(messages)

C10_Witness ==
    \E k \in 1..Len(sent) :
        /\ Len(sent[k].messages) = 5
        /\ sent[k].messages[3].content[1].type = "tool_result"
        /\ sent[k].messages[3].content[1].tool_use_id = "t1"
        /\ sent[k].messages[5].content[1].type = "tool_result"
        /\ sent[k].messages[5].content[1].tool_use_id = "tool_0"

\* the step is an _invoke_bedrock_claude call (one more entry in sent)
InvokeStep == Len(sent') = Len(sent) + 1

\* the step is a call the endpoint rejected with the ClientError code c
RejectedWith(c) ==
    /\ InvokeStep
    /\ nRequests' = nRequests + 1
    /\ pc' = "returned"
    /\ HasPrefix(result', ErrorPrefix \o "AWS Bedrock error (" \o c \o "): ")

CredentialCodes == {"UnrecognizedClientException", "InvalidSignatureException",
                    "ExpiredTokenException", "AccessDeniedException"}

\* C12: bedrock_available becomes False when, and only when, a model invocation
\* is rejected with UnrecognizedClientException, InvalidSignatureException,
\* ExpiredTokenException or AccessDeniedException; any other model error leaves
\* it as it is; once False it never becomes True again, and every later
\* _invoke_bedrock_claude call fails before a request is sent.
C12_LatchSetByCredentialRejection ==
    [][ /\ (bedrock_available /\ ~bedrock_available')
           => \E c \in CredentialCodes : RejectedWith(c)
        /\ \A c \in CredentialCodes : RejectedWith(c) => ~bedrock_available'
        /\ \A c \in {"ThrottlingException", "Unknown"} :
              RejectedWith(c) => bedrock_available' = bedrock_available
        /\ ~bedrock_available => ~bedrock_available'
        /\ (~bedrock_available /\ InvokeStep)
           => /\ nRequests' = nRequests
              /\ replies' = replies
              /\ pc' = "returned"
              /\ HasPrefix(result', ErrorPrefix \o LatchedMsg)
      ]_vars

C12_Witness ==
    /\ ~bedrock_available
    /\ latchedAtStart
    /\ Returned
    /\ Len(sent) = 1
    /\ nRequests = 0
    /\ HasPrefix(result, ErrorPrefix \o LatchedMsg)

\* the step is a process_query call made while no session is established
CallWithoutSession == pc \in {"idle", "returned", "raised"} /\ ~session /\ ~session'

\* C15: without a session, process_query returns the not-connected message at
\* once: no list_tools, no model invocation and no call_tool is issued and
\* bedrock_available is left as it was.
C15_NotConnectedNoEffect ==
    /\ [](~session => pc \in {"idle", "returned"})
    /\ [][ CallWithoutSession
           => /\ pc' = "returned"
              /\ result' = NotConnected
              /\ nListTools' = 0
              /\ nRequests' = 0
              /\ sent' = << >>
              /\ calls' = << >>
              /\ replies' = << >>
              /\ bedrock_available' = bedrock_available
      ]_vars

C15_Witness ==
    /\ ~session
    /\ Returned
    /\ result = NotConnected
    /\ nListTools = 0
    /\ sent = << >>
    /\ calls = << >>

\* C16: the catalog is fetched once per query, before the first model
\* invocation, every invocation of the query (first and follow-up) is given
\* that same catalog, and the query starts from a transcript that holds its own
\* user turn and nothing else.
C16_CatalogOncePerQuery ==
    /\ nListTools <= 1
    /\ Len(sent) >= 1
       => /\ nListTools = 1
          /\ sent[1].messages = << [role |-> "user", content |-> query] >>
          /\ \E tools \in ServerTools :
                sent[1].tools = [i \in 1..Len(tools) |->
                                    [name |-> tools[i].name,
                                     description |-> tools[i].description,
                                     input_schema |-> tools[i].inputSchema]]
          /\ \A k \in 1..Len(sent) : sent[k].tools = sent[1].tools

C16_Witness ==
    /\ Returned
    /\ nListTools = 1
    /\ Len(sent) = 3
    /\ Len(sent[1].tools) = 1
    /\ sent[3].tools = sent[1].tools
    /\ Len(sent[1].messages) = 1

\* the tool_use blocks of a reply's content, in order
RECURSIVE ToolUsesOf(_)
ToolUsesOf(content) ==
    IF content = << >> THEN << >>
    ELSE (IF IsToolUse(content[1]) THEN <<content[1]>> ELSE << >>) \o ToolUsesOf(Tail(content))

\* C17: when the first reply holds k >= 1 tool_use blocks and every follow-up
\* reply is text only, process_query makes exactly k call_tool calls, one per
\* block and in block order, and exactly k+1 model invocations, the j-th
\* follow-up invocation seeing a transcript with the first j tool_use/tool_result
\* pairs.
C17_EachRequestConsumedOnce ==
    (/\ ReturnedAnswer
     /\ Len(replies) >= 1
     /\ HasToolUse(replies[1])
     /\ \A j \in 2..Len(replies) : ~HasToolUse(replies[j]))
    => LET uses == ToolUsesOf(replies[1].content)
           k == Len(uses)
       IN  /\ Len(calls) = k
           /\ Len(sent) = k + 1
           /\ Len(replies) = k + 1
           /\ \A j \in 1..k :
                /\ calls[j] = [name |-> uses[j].name, args |-> Get(uses[j], "input", << >>)]
                /\ Len(sent[j + 1].messages) = 1 + 2 * j
                /\ \A i \in 1..j :
                     /\ sent[j + 1].messages[2 * i].role = "assistant"
                     /\ Len(sent[j + 1].messages[2 * i].content) = 1
                     /\ sent[j + 1].messages[2 * i].content[1].type = "tool_use"
                     /\ sent[j + 1].messages[2 * i].content[1].name = uses[i].name
                     /\ sent[j + 1].messages[2 * i].content[1].input = Get(uses[i], "input", << >>)
                     /\ sent[j + 1].messages[2 * i + 1].role = "user"
                     /\ sent[j + 1].messages[2 * i + 1].content[1].type = "tool_result"

C17_Witness ==
    /\ ReturnedAnswer
    /\ Len(replies) = 3
    /\ Len(replies[1].content) = 2
    /\ IsToolUse(replies[1].content[1])
    /\ IsToolUse(replies[1].content[2])
    /\ replies[1].content[1].name # replies[1].content[2].name
    /\ ~HasToolUse(replies[2])
    /\ ~HasToolUse(replies[3])
    /\ Len(calls) = 2
    /\ calls[1].name = replies[1].content[1].name
    /\ calls[2].name = replies[1].content[2].name

\* a transcript after j tool executions: the user turn with the raw query, then
\* j pairs of an assistant turn and a user turn
AlternatingTranscript(m, j) ==
    /\ Len(m) = 1 + 2 * j
    /\ m[1] = [role |-> "user", content |-> query]
    /\ \A i \in 1..Len(m) : m[i].role = (IF i % 2 = 1 THEN "user" ELSE "assistant")
    /\ m[Len(m)].role = "user"

IsPrefixOf(m, n) == Len(m) <= Len(n) /\ SubSeq(n, 1, Len(m)) = m

\* C18: every transcript passed to the model invoker starts with the user turn
\* holding the raw query, alternates user and assistant turns and ends in a user
\* turn; after j tool executions it has 1 + 2j turns; and the transcript only
\* grows by appending: each one extends the one passed before it.
C18_TranscriptAlternatesAndGrows ==
    /\ \A k \in 1..Len(sent) :
          /\ AlternatingTranscript(sent[k].messages, k - 1)
          /\ k > 1 => IsPrefixOf(sent[k - 1].messages, sent[k].messages)
    /\ Len(sent) >= 1 => IsPrefixOf(sent[Len(sent)].messages, messages)
    /\ pc \in {"invoke_first", "invoke_followup"}
       => AlternatingTranscript(messages, Len(calls))

C18_Witness ==
    /\ Len(sent) = 3
    /\ Len(sent[1].messages) = 1
    /\ Len(sent[2].messages) = 3
    /\ Len(sent[3].messages) = 5
    /\ sent[3].messages[2].content # sent[3].messages[4].content

\* the identifiers of the tool_use/tool_result pairs of a transcript, in order
PairIds(m) == [i \in 1..((Len(m) - 1) \div 2) |-> m[2 * i].content[1].id]

\* C20: the identifiers process_query assigns to tool_use blocks that carry no
\* id (tool_<n>) are pairwise different, so no two pairs of a transcript share a
\* fallback identifier.
C20_FallbackIdsDistinct ==
    \A k \in 1..Len(sent) :
        LET ids == PairIds(sent[k].messages)
        IN  \A i, j \in 1..Len(ids) :
                (i < j /\ HasPrefix(ids[i], "tool_") /\ HasPrefix(ids[j], "tool_"))
                => ids[i] # ids[j]

UnderWay == pc \in {"list_tools", "invoke_first", "scan", "call_tool", "invoke_followup"}

\* what is left of the call: the blocks of the first reply not yet dealt
\* with, three steps at most for each (call_tool, follow-up invocation, next
\* block), and before the first reply the largest it can be
Rank ==
    CASE pc = "list_tools" -> 3 * MaxBlocks + 3
      [] pc = "invoke_first" -> 3 * MaxBlocks + 2
      [] pc = "scan" -> 3 * (Len(loop_content) - loop_idx + 1) + 1
      [] pc = "call_tool" -> 3 * (Len(loop_content) - loop_idx + 1)
      [] pc = "invoke_followup" -> 3 * (Len(loop_content) - loop_idx + 1) - 1
      [] OTHER -> 0

\* the liveness reading, under FairSpec (every remote call returns or raises)
QueryEventuallyReturns == UnderWay ~> Returned

\* C19: every query terminates, whatever the model replies, and the number of
\* model invocations is at most 1 plus the number of tool_use blocks of the
\* first reply: a call under way always has a step to take, and every step
\* of it either returns or lowers Rank, a natural number.
C19_QueryTerminates ==
    /\ [](Len(sent) <= 1 + (IF Len(replies) >= 1 THEN ToolUseCount(replies[1].content) ELSE 0))
    /\ [](UnderWay => Rank \in Nat /\ ENABLED QueryStep)
    /\ [][UnderWay => (Returned' \/ (UnderWay' /\ Rank' < Rank))]_vars

C19_Witness ==
    /\ Returned
    /\ Len(replies) = 3
    /\ Len(sent) = 3
    /\ ToolUseCount(replies[1].content) = 2
    /\ HasToolUse(replies[2])
    /\ HasToolUse(replies[3])

\* C14: within one query the remote calls are strictly sequential: never are
\* two call_tool calls, two model invocations, or a call_tool call and a model
\* invocation in flight together; each begins after the previous one completed.
C14_RemoteCallsSequential ==
    /\ Len(inflight) <= 1
    /\ pc = "list_tools" => inflight = <<"list_tools">>
    /\ pc = "call_tool" => inflight = <<"call_tool">>
    /\ pc \in {"invoke_first", "invoke_followup"} => inflight = <<"invoke_model">>
    /\ pc \in {"idle", "scan", "returned"} => inflight = << >>

C14_Witness ==
    /\ pc = "call_tool"
    /\ inflight = <<"call_tool">>
    /\ Len(calls) = 1
    /\ Len(sent) = 2
    /\ Len(replies) = 2

-----------------------------------------------------------------------------
(* main, connect_to_sse_server step by step, chat_loop and cleanup *)

\* what the user types at the prompt of line 250
Inputs == {"quit", " EXIT ", "  What is the time zone for location QIM4?\n"}

\* what an awaited step of connect_to_sse_server raises
ConnectErrors == {[cls |-> "Exception", msg |-> "All connection attempts failed"]}

\* what the __aexit__ of a context manager raises
ExitErrors == {[cls |-> "Exception", msg |-> "Attempted to exit cancel scope in a different task"]}

Whitespace == {" ", "\t", "\n", "\r"}

\* str.strip()
RECURSIVE LStrip(_)
LStrip(s) ==
    IF Len(s) > 0 /\ SubSeq(s, 1, 1) \in Whitespace
    THEN LStrip(SubSeq(s, 2, Len(s)))
    ELSE s

RECURSIVE RStrip(_)
RStrip(s) ==
    IF Len(s) > 0 /\ SubSeq(s, Len(s), Len(s)) \in Whitespace
    THEN RStrip(SubSeq(s, 1, Len(s) - 1))
    ELSE s

Strip(s) == RStrip(LStrip(s))

\* str.lower()
UpperCase == "ABCDEFGHIJKLMNOPQRSTUVWXYZ"
LowerCase == "abcdefghijklmnopqrstuvwxyz"

LowerChar(c) ==
    IF \E i \in 1..Len(UpperCase) : SubSeq(UpperCase, i, i) = c
    THEN LET i == CHOOSE j \in 1..Len(UpperCase) : SubSeq(UpperCase, j, j) = c
         IN  SubSeq(LowerCase, i, i)
    ELSE c

RECURSIVE Lower(_)
Lower(s) ==
    IF Len(s) = 0 THEN ""
    ELSE LowerChar(SubSeq(s, 1, 1)) \o Lower(SubSeq(s, 2, Len(s)))

\* a comparison that does not fold the case
IsQuit_NoLower(q) == q \in {"quit", "exit"}

\* line 252
IsQuit(q) == Lower(q) \in {"quit", "exit"}

\* the steps of connect_to_sse_server at which main can stand
ConnectSteps == {"aenter_streams", "aenter_session", "initialize", "list_tools"}

\* the frames of chat_loop and process_query are gone
FrameDiscarded ==
    /\ pc' = "idle"
    /\ query' = ""
    /\ messages' = << >>
    /\ available_tools' = << >>
    /\ bedrock_response' = [content |-> << >>]
    /\ loop_content' = << >>
    /\ loop_idx' = 1
    /\ final_text' = << >>
    /\ tool_results' = << >>
    /\ tool_name' = ""
    /\ tool_args' = << >>
    /\ tool_id' = ""
    /\ result_content' = ""
    /\ result' = ""
    /\ raised' = NoExc
    /\ replies' = << >>
    /\ sent' = << >>
    /\ calls' = << >>
    /\ nListTools' = 0
    /\ nRequests' = 0
    /\ origin' = << >>
    /\ latchedAtStart' = FALSE
    /\ toolExc' = NoExc
    /\ failedAt' = [invocations |-> 0, calls |-> 0]
    /\ inflight' = << >>

querystate == <<pc, query, result, raised, locals, history, inflight>>

\* line 73: the streams context manager is stored before it is entered
CreateStreams ==
    /\ mpc = "start"
    /\ streams_context' = "created"
    /\ mpc' = "aenter_streams"
    /\ UNCHANGED <<session, bedrock_available, querystate, session_context, line, leftBy>>

\* lines 74, 76: the streams are open, the session context manager is stored
StreamsEntered ==
    /\ mpc = "aenter_streams"
    /\ streams_context' = "entered"
    /\ session_context' = "created"
    /\ mpc' = "aenter_session"
    /\ UNCHANGED <<session, bedrock_available, querystate, line, leftBy>>

\* line 77
SessionEntered ==
    /\ mpc = "aenter_session"
    /\ session_context' = "entered"
    /\ session' = TRUE
    /\ mpc' = "initialize"
    /\ UNCHANGED <<bedrock_available, querystate, streams_context, line, leftBy>>

\* line 80
Initialized ==
    /\ mpc = "initialize"
    /\ mpc' = "list_tools"
    /\ UNCHANGED <<session, bedrock_available, querystate, streams_context, session_context, line, leftBy>>

\* lines 85-87, then line 279: chat_loop starts
ToolsListed ==
    /\ mpc = "list_tools"
    /\ mpc' = "chat_loop"
    /\ UNCHANGED <<session, bedrock_available, querystate, streams_context, session_context, line, leftBy>>

\* lines 88-90: the awaited step raised; the exception is raised again and
\* main goes to its finally clause (line 282)
ConnectFailed(e) ==
    /\ mpc \in ConnectSteps
    /\ Catches(e)
    /\ mpc' = "cleanup"
    /\ leftBy' = "connect_failed"
    /\ UNCHANGED <<session, bedrock_available, querystate, streams_context, session_context, line>>

\* lines 280-281: Ctrl+C while connecting
ConnectInterrupted ==
    /\ mpc \in ConnectSteps \cup {"start"}
    /\ mpc' = "cleanup"
    /\ leftBy' = "interrupt"
    /\ UNCHANGED <<session, bedrock_available, querystate, streams_context, session_context, line>>

\* line 250: input() returns a line; the loop reads only when it is at the
\* top of its body, no process_query call under way
ReadInput(l) ==
    /\ mpc = "chat_loop"
    /\ pc = "idle"
    /\ line = << >>
    /\ line' = <<l>>
    /\ UNCHANGED <<session, bedrock_available, querystate, mpc, streams_context, session_context, leftBy>>

\* lines 250, 252-253: break; chat_loop returns and main goes to its finally clause
ChatQuit ==
    /\ mpc = "chat_loop"
    /\ pc = "idle"
    /\ Len(line) = 1
    /\ IsQuit(Strip(line[1]))
    /\ mpc' = "cleanup"
    /\ leftBy' = "quit"
    /\ FrameDiscarded
    /\ UNCHANGED <<session, bedrock_available, streams_context, session_context, line>>

\* lines 250, 255-256: the stripped line is handed to process_query
ChatProcess ==
    /\ mpc = "chat_loop"
    /\ pc = "idle"
    /\ Len(line) = 1
    /\ ~IsQuit(Strip(line[1]))
    /\ ProcessQuery(Strip(line[1]))

\* the process_query call of line 256 advances
ChatQueryStep ==
    /\ mpc = "chat_loop"
    /\ QueryStep

\* line 257: the answer (or the error string) is printed and the loop goes
\* round; the frame of the process_query call is gone, and nothing reads
\* the printed answer again
PrintResponse ==
    /\ mpc = "chat_loop"
    /\ pc = "returned"
    /\ line' = << >>
    /\ FrameDiscarded
    /\ UNCHANGED <<session, bedrock_available, mpc, streams_context, session_context, leftBy>>

\* lines 259-261: Ctrl+C at the prompt or during the query
ChatInterrupt ==
    /\ mpc = "chat_loop"
    /\ mpc' = "cleanup"
    /\ leftBy' = "interrupt"
    /\ line' = << >>
    /\ FrameDiscarded
    /\ UNCHANGED <<session, bedrock_available, streams_context, session_context>>

\* line 94, the test is false
CleanupNoSession ==
    /\ mpc = "cleanup"
    /\ session_context = "unset"
    /\ mpc' = "cleanup_streams"
    /\ UNCHANGED <<session, bedrock_available, querystate, streams_context, session_context, line, leftBy>>

\* line 95 returns
SessionExitReturn ==
    /\ mpc = "cleanup"
    /\ session_context # "unset"
    /\ session_context' = (IF session_context = "entered" THEN "exited" ELSE session_context)
    /\ mpc' = "cleanup_streams"
    /\ UNCHANGED <<session, bedrock_available, querystate, streams_context, line, leftBy>>

\* line 95 raises: lines 98-99 catch it, and lines 96-97 are skipped
SessionExitRaise(e) ==
    /\ mpc = "cleanup"
    /\ session_context # "unset"
    /\ Catches(e)
    /\ session_context' = (IF session_context = "entered" THEN "exit_failed" ELSE session_context)
    /\ mpc' = "exited"
    /\ UNCHANGED <<session, bedrock_available, querystate, streams_context, line, leftBy>>

\* line 96, the test is false
CleanupNoStreams ==
    /\ mpc = "cleanup_streams"
    /\ streams_context = "unset"
    /\ mpc' = "exited"
    /\ UNCHANGED <<session, bedrock_available, querystate, streams_context, session_context, line, leftBy>>

\* line 97 returns
StreamsExitReturn ==
    /\ mpc = "cleanup_streams"
    /\ streams_context # "unset"
    /\ streams_context' = (IF streams_context = "entered" THEN "exited" ELSE streams_context)
    /\ mpc' = "exited"
    /\ UNCHANGED <<session, bedrock_available, querystate, session_context, line, leftBy>>

\* line 97 raises: lines 98-99
StreamsExitRaise(e) ==
    /\ mpc = "cleanup_streams"
    /\ streams_context # "unset"
    /\ Catches(e)
    /\ streams_context' = (IF streams_context = "entered" THEN "exit_failed" ELSE streams_context)
    /\ mpc' = "exited"
    /\ UNCHANGED <<session, bedrock_available, querystate, session_context, line, leftBy>>

NextMain ==
    \/ CreateStreams
    \/ StreamsEntered
    \/ SessionEntered
    \/ Initialized
    \/ ToolsListed
    \/ \E e \in ConnectErrors : ConnectFailed(e)
    \/ ConnectInterrupted
    \/ \E l \in Inputs : ReadInput(l)
    \/ ChatQuit
    \/ ChatProcess
    \/ ChatQueryStep
    \/ PrintResponse
    \/ ChatInterrupt
    \/ CleanupNoSession
    \/ SessionExitReturn
    \/ \E e \in ExitErrors : SessionExitRaise(e)
    \/ CleanupNoStreams
    \/ StreamsExitReturn
    \/ \E e \in ExitErrors : StreamsExitRaise(e)

SpecMain == Init /\ [][NextMain]_vars

-----------------------------------------------------------------------------
(* claims about main and chat_loop *)

\* C11: on every exit path of main, every context that was entered (streams
\* and session) has been exited once when main ends, and none is left open
\* because releasing another one failed.
C11_EnteredContextsReleased ==
    mpc = "exited" => streams_context # "entered" /\ session_context # "entered"

QuitWord(l) == Lower(Strip(l)) \in {"quit", "exit"}

\* the loop is at its prompt: nothing read, no process_query call under way
Prompting == mpc = "chat_loop" /\ pc = "idle" /\ line = << >>

\* C13: chat_loop goes on after a failed query: when process_query has
\* returned an error string the loop stays (only an interrupt ends it) and
\* its next step is back to the prompt; the loop is left only by an interrupt
\* or on a line whose trimmed, case-folded text is quit or exit, and such a
\* line is never processed; a line is read only when no query is under way,
\* and a query is started only with the trimmed line that was read.
C13_LoopGoesOnUntilQuit ==
    [][ /\ (mpc = "chat_loop" /\ pc = "returned" /\ IsErrorString(result))
              => /\ mpc' = "chat_loop" \/ leftBy' = "interrupt"
                 /\ mpc' = "chat_loop" => Prompting'
        /\ (mpc = "chat_loop" /\ mpc' # "chat_loop")
              => \/ leftBy' = "interrupt"
                 \/ leftBy' = "quit" /\ Len(line) = 1 /\ QuitWord(line[1]) /\ pc = "idle"
        /\ (mpc = "chat_loop" /\ Len(line) = 1 /\ pc = "idle" /\ QuitWord(line[1]))
              => mpc' = "cleanup"
        /\ (mpc = "chat_loop" /\ line' # line /\ line' # << >>)
              => pc = "idle" /\ inflight = << >> /\ line = << >>
        /\ (mpc = "chat_loop" /\ pc = "idle" /\ pc' \notin {"idle"} /\ mpc' = "chat_loop")
              => /\ Len(line) = 1
                 /\ query' = Strip(line[1])
                 /\ ~QuitWord(line[1])
                 /\ line' = line
      ]_vars

\* a query that ended in an error latched the credentials failure; the loop
\* went on, read another line and the next query is being processed
C13_Witness ==
    /\ mpc = "chat_loop"
    /\ pc = "invoke_first"
    /\ latchedAtStart
    /\ Len(line) = 1
    /\ query = Strip(line[1])
    /\ query # line[1]

====
